---- MODULE Spec2Model ----
(***************************************************************************)
(* The price-alert engine of telegram_bot.py: the tracked_stocks store,   *)
(* its JSON file, the /track, /untrack and /myalerts handlers and the      *)
(* periodic check_price_alerts job.                                        *)
(*                                                                         *)
(* Everything runs on one asyncio event loop.  A coroutine runs alone      *)
(* until it awaits; the handlers await only their reply (after the store   *)
(* and the file were written) and check_price_alerts awaits only           *)
(* context.bot.send_message (requests.get is a blocking call).  So a       *)
(* handler is one atomic action, and handlers interleave with a sweep      *)
(* only while the sweep is at pc = "sending".                              *)
(*                                                                         *)
(* Text is a sequence of one-character strings, so that upper(), lower(),  *)
(* str(), int() and float() are computed character by character.           *)
(***************************************************************************)
EXTENDS Integers, Sequences, FiniteSets, Bags, TLC

(***************************************************************************)
(* Text and numbers                                                        *)
(***************************************************************************)
LowerLetters == <<"a", "b", "c", "d", "e", "f", "g", "h", "i", "j", "k", "l", "m",
                  "n", "o", "p", "q", "r", "s", "t", "u", "v", "w", "x", "y", "z">>

UpperLetters == <<"A", "B", "C", "D", "E", "F", "G", "H", "I", "J", "K", "L", "M",
                  "N", "O", "P", "Q", "R", "S", "T", "U", "V", "W", "X", "Y", "Z">>

DigitChars == <<"0", "1", "2", "3", "4", "5", "6", "7", "8", "9">>

\* The index of character c in the sequence t, 0 when it is not there.
IndexIn(c, t) ==
    IF \E i \in DOMAIN t : t[i] = c
    THEN CHOOSE i \in DOMAIN t : t[i] = c
    ELSE 0

\* The characters of the texts the model uses.
Chars ==
    {LowerLetters[i] : i \in DOMAIN LowerLetters} \cup {UpperLetters[i] : i \in DOMAIN UpperLetters}
    \cup {DigitChars[i] : i \in DOMAIN DigitChars} \cup {"-", "+", ".", "/"}

UpperChar ==
    [c \in Chars |->
        IF IndexIn(c, LowerLetters) > 0 THEN UpperLetters[IndexIn(c, LowerLetters)] ELSE c]

LowerChar ==
    [c \in Chars |->
        IF IndexIn(c, UpperLetters) > 0 THEN LowerLetters[IndexIn(c, UpperLetters)] ELSE c]

\* The value of a digit, -1 for any other character.
DigitOf == [c \in Chars |-> IndexIn(c, DigitChars) - 1]

\* str.upper() and str.lower()
Upper(s) == [i \in DOMAIN s |-> UpperChar[s[i]]]

Lower(s) == [i \in DOMAIN s |-> LowerChar[s[i]]]

IsDigits(s) == Len(s) > 0 /\ \A i \in DOMAIN s : DigitOf[s[i]] >= 0

RECURSIVE DigitsValue(_)
DigitsValue(s) ==
    IF s = <<>> THEN 0
    ELSE 10 * DigitsValue(SubSeq(s, 1, Len(s) - 1)) + DigitOf[s[Len(s)]]

RECURSIVE NatToStr(_)
NatToStr(n) ==
    IF n < 10 THEN <<DigitChars[n + 1]>>
    ELSE NatToStr(n \div 10) \o <<DigitChars[(n % 10) + 1]>>

\* str(n) of an int
IntToStr(n) == IF n < 0 THEN <<"-">> \o NatToStr(0 - n) ELSE NatToStr(n)

\* A sign and the rest of a numeric text.
Unsigned(s) == IF Len(s) > 0 /\ s[1] \in {"-", "+"} THEN Tail(s) ELSE s

Negative(s) == Len(s) > 0 /\ s[1] = "-"

\* int(s): ok is FALSE where Python raises ValueError.
StrToInt(s) ==
    IF IsDigits(Unsigned(s))
    THEN [ok |-> TRUE,
          value |-> IF Negative(s) THEN 0 - DigitsValue(Unsigned(s))
                    ELSE DigitsValue(Unsigned(s))]
    ELSE [ok |-> FALSE, value |-> 0]

(***************************************************************************)
(* A Python float: a finite value (the model uses whole numbers), an       *)
(* infinity or not-a-number.                                               *)
(***************************************************************************)
Finite(n) == [kind |-> "finite", val |-> n]

NaN == [kind |-> "nan", val |-> 0]

PosInf == [kind |-> "inf", val |-> 1]

NegInf == [kind |-> "inf", val |-> -1]

\* a <= b on floats: every comparison with nan is false.
FloatLe(a, b) ==
    CASE a.kind = "nan" \/ b.kind = "nan" -> FALSE
      [] a.kind = "inf" -> a.val < 0 \/ b = a
      [] b.kind = "inf" -> b.val > 0
      [] OTHER -> a.val <= b.val

FloatGe(a, b) == FloatLe(b, a)

\* float(s): ok is FALSE where Python raises ValueError.
ParseFloat(s) ==
    LET u == Unsigned(s)
        w == Lower(u)
    IN  CASE IsDigits(u) ->
               [ok |-> TRUE,
                value |-> Finite(IF Negative(s) THEN 0 - DigitsValue(u) ELSE DigitsValue(u))]
          [] w = <<"n", "a", "n">> -> [ok |-> TRUE, value |-> NaN]
          [] w \in {<<"i", "n", "f">>, <<"i", "n", "f", "i", "n", "i", "t", "y">>} ->
               [ok |-> TRUE, value |-> IF Negative(s) THEN NegInf ELSE PosInf]
          [] OTHER -> [ok |-> FALSE, value |-> NaN]

(***************************************************************************)
(* The file tracked_stocks.json                                            *)
(***************************************************************************)
\* json.dump of a float: repr() of a finite value, NaN, Infinity.
JsonNumber_AsInt(f) ==
    CASE f.kind = "nan" -> <<"N", "a", "N">>
      [] f.kind = "inf" ->
           IF f.val < 0 THEN <<"-", "I", "n", "f", "i", "n", "i", "t", "y">>
           ELSE <<"I", "n", "f", "i", "n", "i", "t", "y">>
      [] OTHER -> IntToStr(f.val)

JsonNumber(f) ==
    CASE f.kind = "nan" -> <<"N", "a", "N">>
      [] f.kind = "inf" ->
           IF f.val < 0 THEN <<"-", "I", "n", "f", "i", "n", "i", "t", "y">>
           ELSE <<"I", "n", "f", "i", "n", "i", "t", "y">>
      [] OTHER -> IntToStr(f.val) \o <<".", "0">>

\* json.load of a number written by JsonNumber.
JsonParseNumber(t) ==
    CASE t = <<"N", "a", "N">> -> NaN
      [] Unsigned(t) = <<"I", "n", "f", "i", "n", "i", "t", "y">> ->
           IF Negative(t) THEN NegInf ELSE PosInf
      [] OTHER -> Finite(StrToInt(SubSeq(t, 1, Len(t) - 2)).value)

\* json.dump(data): the document written for a store.
JsonDump(data) ==
    [c \in DOMAIN data |->
        [s \in DOMAIN data[c] |->
            [target_price |-> JsonNumber(data[c][s].target_price),
             direction |-> data[c][s].direction]]]

\* json.load of a document.
JsonLoad(doc) ==
    [c \in DOMAIN doc |->
        [s \in DOMAIN doc[c] |->
            [target_price |-> JsonParseNumber(doc[c][s].target_price),
             direction |-> doc[c][s].direction]]]

EmptyStore == [c \in {} |-> 0]

\* The file's content: no file, a complete document, or a file cut short.
NoFile == [kind |-> "missing", doc |-> EmptyStore]

JsonFile(doc) == [kind |-> "json", doc |-> doc]

TruncatedFile == [kind |-> "truncated", doc |-> EmptyStore]

\* A file that exists and that open() or read() fails on (no permission, a
\* directory, bytes that are no text).
UnreadableFile == [kind |-> "unreadable", doc |-> EmptyStore]

\* load_tracked_stocks() raises: lines 60-67 catch json.JSONDecodeError only.
LoadRaises(f) == f.kind = "unreadable"

\* load_tracked_stocks(), when it returns.
load_tracked_stocks(f) ==
    IF f.kind = "json" THEN JsonLoad(f.doc) ELSE EmptyStore

\* save_tracked_stocks that writes nothing.
save_tracked_stocks_Skipped(data, f, outcome) == f

\* save_tracked_stocks(data): the file after the call.  open(..., 'w') may
\* fail and leave the file as it was; it truncates the file, and a failing
\* write leaves it cut short.  Neither failure is raised to the caller.
save_tracked_stocks(data, f, outcome) ==
    CASE outcome = "ok" -> JsonFile(JsonDump(data))
      [] outcome = "open_error" -> f
      [] OTHER -> TruncatedFile

(***************************************************************************)
(* Inputs                                                                  *)
(***************************************************************************)
\* update.effective_chat.id of the chats that send commands (a private chat
\* and a group: group ids are negative).
ChatIds == {42, -7}

AAPL == <<"A", "A", "P", "L">>

GOOG == <<"G", "O", "O", "G">>

Above == <<"a", "b", "o", "v", "e">>

Below == <<"b", "e", "l", "o", "w">>

\* context.args of /track <symbol> <price> <above/below> and of /untrack
\* <symbol> in the specifications with sweeps.
TrackArgs ==
    {<<s, p, d>> : s \in {<<"a", "a", "p", "l">>, GOOG}, p \in {<<"2">>},
                   d \in {Above, <<"B", "E", "L", "O", "W">>}}

UntrackArgs == {<<s>> : s \in {AAPL, <<"g", "o", "o", "g">>}}

\* The same in the specification of the handlers alone: symbols, prices and
\* directions in either case, and arguments that track refuses: a price that
\* is not positive or no number, an unknown direction, a missing argument.
SymbolTexts == {<<"a", "a", "p", "l">>, AAPL, <<"G", "o", "o", "g">>}

PriceTexts == {<<"1">>, <<"2">>}

DirectionTexts == {Above, <<"B", "E", "L", "O", "W">>}

RefusedTrackArgs ==
    {<<AAPL, <<"0">>, Above>>,
     <<GOOG, <<"-", "1">>, Above>>,
     <<GOOG, <<"a", "b", "c">>, Below>>,
     <<AAPL, <<"2">>, <<"u", "p">>>>,
     <<AAPL, <<"1">>>>}

AnyTrackArgs ==
    {<<s, p, d>> : s \in SymbolTexts, p \in PriceTexts, d \in DirectionTexts}
    \cup RefusedTrackArgs

\* Price texts that float() parses to a value that is no finite number.
NonFiniteTrackArgs ==
    {<<AAPL, <<"n", "a", "n">>, Above>>,
     <<GOOG, <<"i", "n", "f">>, Below>>,
     <<GOOG, <<"I", "n", "f", "i", "n", "i", "t", "y">>, Above>>}

AnyUntrackArgs == {<<s>> : s \in SymbolTexts} \cup {<<>>}

\* What tracked_stocks.json can be when the process starts: missing, cut
\* short, unreadable, the document of a store, or a document edited by hand
\* whose chat key is no number.
StartFiles ==
    {NoFile, TruncatedFile, UnreadableFile,
     JsonFile(JsonDump(<<"4", "2">> :> (GOOG :> [target_price |-> Finite(180),
                                                  direction |-> Above]))),
     JsonFile(JsonDump(<<"a", "b", "c">> :> (AAPL :> [target_price |-> Finite(2),
                                                       direction |-> Above])))}

\* What save_tracked_stocks can meet: the write succeeds, open() fails, or
\* the write fails after open() truncated the file.
SaveOutcomes == {"ok", "open_error", "write_error"}

\* What the Alpha Vantage request can bring: status "error" is a request, HTTP
\* or JSON error; otherwise the "05. price" text of "Global Quote" (<<>> when
\* there is none) and whether the payload holds "Information" (rate limit).
QuoteResponses ==
    {[status |-> "error", price |-> <<>>, information |-> FALSE],
     [status |-> "ok", price |-> <<>>, information |-> TRUE]}
    \cup {[status |-> "ok", price |-> p, information |-> FALSE] :
            p \in {<<>>, <<"1">>, <<"2">>, <<"3">>, <<"N", "/", "A">>}}

(***************************************************************************)
(* State                                                                   *)
(***************************************************************************)
VARIABLES
    tracked_stocks,         \* the global dict: chat id text -> symbol -> alert
    file,                   \* tracked_stocks.json
    ALPHA_VANTAGE_API_KEY,  \* whether the key is configured
    reply,                  \* the reply sent in the last step ("none": the step sent none)
    pc,                     \* where check_price_alerts is
    outer,                  \* chat ids of the outer snapshot still to visit
    inner,                  \* the inner snapshot's entries still to visit
    chat_id_str, chat_id, symbol, target_price, direction, current_price,
    alert_triggered,
    alerts_to_remove,
    rm_i,                   \* position of the removal loop in alerts_to_remove
    log,                    \* what the running sweep did, for the properties
    notified,               \* stored alerts a notifier call was already made for
    replaced,               \* the pairs whose alert the last handler replaced, where recorded
    removed                 \* the pairs the last handler removed, where recorded

sweepLocals ==
    <<pc, outer, inner, chat_id_str, chat_id, symbol, target_price, direction,
      current_price, alert_triggered, alerts_to_remove, rm_i>>

vars ==
    <<tracked_stocks, file, ALPHA_VANTAGE_API_KEY, reply, pc, outer, inner,
      chat_id_str, chat_id, symbol, target_price, direction, current_price,
      alert_triggered, alerts_to_remove, rm_i, log, notified, replaced, removed>>

\* A local that holds nothing yet.
None == [kind |-> "none", val |-> 0]

NoText == <<>>

HasAlert(data, c, s) == c \in DOMAIN data /\ s \in DOMAIN data[c]

\* The (chat id text, symbol) pairs of a store.
Pairs(data) == UNION {{<<c, s>> : s \in DOMAIN data[c]} : c \in DOMAIN data}

\* The pairs of both stores whose alerts differ.
Replaced(old, new) ==
    {p \in Pairs(old) \cap Pairs(new) : old[p[1]][p[2]] # new[p[1]][p[2]]}

\* d[k] = v on a dict.
DictSet(d, k, v) == [x \in DOMAIN d \cup {k} |-> IF x = k THEN v ELSE d[x]]

\* del d[k]
DictDel(d, k) == [x \in DOMAIN d \ {k} |-> d[x]]

Init ==
    /\ file = NoFile
    /\ tracked_stocks = load_tracked_stocks(file)
    /\ ALPHA_VANTAGE_API_KEY \in BOOLEAN
    /\ reply = "none"
    /\ pc = "idle"
    /\ outer = {}
    /\ inner = EmptyStore
    /\ chat_id_str = NoText
    /\ chat_id = 0
    /\ symbol = NoText
    /\ target_price = None
    /\ direction = NoText
    /\ current_price = None
    /\ alert_triggered = FALSE
    /\ alerts_to_remove = <<>>
    /\ rm_i = 1
    /\ log = EmptyBag
    /\ notified = {}
    /\ replaced = {}
    /\ removed = {}

\* Lines 80-81, the module being loaded: the store is read from the file, and
\* an exception that load_tracked_stocks raises ends the process.
Startup ==
    /\ pc = "start"
    /\ IF LoadRaises(file)
       THEN /\ pc' = "crashed"
            /\ UNCHANGED tracked_stocks
       ELSE /\ pc' = "idle"
            /\ tracked_stocks' = load_tracked_stocks(file)
    /\ reply' = "none"
    /\ UNCHANGED <<file, ALPHA_VANTAGE_API_KEY, outer, inner, chat_id_str, chat_id,
                   symbol, target_price, direction, current_price, alert_triggered,
                   alerts_to_remove, rm_i, log, notified, replaced, removed>>

(***************************************************************************)
(* The command handlers                                                    *)
(***************************************************************************)
\* A handler runs when no sweep is running or the sweep is suspended in
\* send_message.
HandlersCanRun_Always == TRUE

HandlersCanRun == pc \in {"idle", "sending"}

\* An entry of the log.
Event(ev, c, s, alert, to) ==
    [ev |-> ev, chat_id_str |-> c, symbol |-> s, alert |-> alert, to |-> to]

NoAlert == [target_price |-> None, direction |-> NoText]

Marked(c, s) ==
    pc = "sending" /\ \E i \in DOMAIN alerts_to_remove : alerts_to_remove[i] = <<c, s>>

\* The log without the commands recorded for a pair: it keeps the last one.
WithoutCommands(c, s) ==
    LET old == {e \in BagToSet(log) :
                  e.ev \in {"track", "untrack"} /\ e.chat_id_str = c /\ e.symbol = s}
    IN  [e \in BagToSet(log) \ old |-> log[e]]

\* A command on a pair the suspended sweep has marked for removal is logged.
LogCommand(ev, c, s, alert) ==
    IF Marked(c, s)
    THEN WithoutCommands(c, s) (+) SetToBag({Event(ev, c, s, alert, 0)})
    ELSE WithoutCommands(c, s)

\* Line 798: the symbol as stored.
TrackSymbol_AsTyped(arg) == arg

TrackSymbol(arg) == Upper(arg)

TrackDirection_AsTyped(arg) == arg

\* Line 811: the direction as checked and stored.
TrackDirection(arg) == Lower(arg)

\* Lines 817-824 with setdefault in place of the assignment.
SetAlert_KeepsFirst(data, c, s, alert) ==
    IF c \in DOMAIN data /\ s \in DOMAIN data[c] THEN data
    ELSE LET withChat == IF c \notin DOMAIN data THEN DictSet(data, c, EmptyStore) ELSE data
         IN  DictSet(withChat, c, DictSet(withChat[c], s, alert))

\* Lines 817-824 setting the alert in every chat's entry.
SetAlert_EveryChat(data, c, s, alert) ==
    [x \in DOMAIN data \cup {c} |->
        DictSet(IF x \in DOMAIN data THEN data[x] ELSE EmptyStore, s, alert)]

\* track, lines 817-824: the entry for the chat is created when missing, and
\* the alert for the symbol is set.
SetAlert(data, c, s, alert) ==
    LET withChat == IF c \notin DOMAIN data THEN DictSet(data, c, EmptyStore) ELSE data
    IN  DictSet(withChat, c, DictSet(withChat[c], s, alert))

\* Lines 792-815 with the price test of line 801 as target_price < 0.
TrackCheck_AcceptsZero(args) ==
    IF Len(args) # 3 THEN "track_usage"
    ELSE LET parsed == ParseFloat(args[2])
         IN  CASE ~parsed.ok -> "invalid_price"
               [] FloatLe(parsed.value, Finite(0)) /\ parsed.value # Finite(0) ->
                    "price_not_positive"
               [] TrackDirection(args[3]) \notin {Above, Below} -> "invalid_direction"
               [] OTHER -> "track_ok"

\* The reply of track for its arguments: "track_ok" when they are accepted.
TrackCheck(args) ==
    IF Len(args) # 3 THEN "track_usage"
    ELSE LET parsed == ParseFloat(args[2])
         IN  CASE ~parsed.ok -> "invalid_price"
               [] FloatLe(parsed.value, Finite(0)) -> "price_not_positive"
               [] TrackDirection(args[3]) \notin {Above, Below} -> "invalid_direction"
               [] OTHER -> "track_ok"

\* The number of alerts of a store.
AlertCount(data) == Cardinality(Pairs(data))

\* The model follows stores of at most MaxAlerts alerts: a /track that would
\* add one more is not issued.
MaxAlerts == 2

WithinBounds(c, s) ==
    HasAlert(tracked_stocks, c, s) \/ AlertCount(tracked_stocks) < MaxAlerts

\* track undoing lines 817-824 when the save fails.
track_RollsBack(c, args, saved) ==
    LET check == TrackCheck(args)
    IN  /\ HandlersCanRun
        /\ reply' = check
        /\ IF check = "track_ok"
           THEN LET id == IntToStr(c)
                    sym == TrackSymbol(args[1])
                    alert == [target_price |-> ParseFloat(args[2]).value,
                              direction |-> TrackDirection(args[3])]
                IN  /\ WithinBounds(id, sym)
                    /\ tracked_stocks' = IF saved = "ok"
                                       THEN SetAlert(tracked_stocks, id, sym, alert)
                                       ELSE tracked_stocks
                    /\ file' = save_tracked_stocks(tracked_stocks', file, saved)
                    /\ notified' = notified \ {<<id, sym>>}
                    /\ log' = LogCommand("track", id, sym, alert)
           ELSE /\ saved = "ok"
                /\ UNCHANGED <<tracked_stocks, file, notified, log>>
        /\ UNCHANGED <<ALPHA_VANTAGE_API_KEY, sweepLocals>>

\* /track of chat c with context.args = args.
track(c, args, saved) ==
    LET check == TrackCheck(args)
    IN  /\ HandlersCanRun
        /\ reply' = check
        /\ IF check = "track_ok"
           THEN LET id == IntToStr(c)
                    sym == TrackSymbol(args[1])
                    alert == [target_price |-> ParseFloat(args[2]).value,
                              direction |-> TrackDirection(args[3])]
                IN  /\ WithinBounds(id, sym)
                    /\ tracked_stocks' = SetAlert(tracked_stocks, id, sym, alert)
                    /\ file' = save_tracked_stocks(tracked_stocks', file, saved)
                    /\ notified' = notified \ {<<id, sym>>}
                    /\ log' = LogCommand("track", id, sym, alert)
           ELSE /\ saved = "ok"
                /\ UNCHANGED <<tracked_stocks, file, notified, log>>
        /\ UNCHANGED <<ALPHA_VANTAGE_API_KEY, sweepLocals>>

\* Lines 850-853 without the deletion of the emptied entry.
RemoveAlert_KeepsChat(data, c, s) == DictSet(data, c, DictDel(data[c], s))

\* Lines 850-853 deleting the chat's entry whatever it holds.
RemoveAlert_DropsChat(data, c, s) == DictDel(data, c)

\* untrack, lines 850-853: the alert is deleted, and the chat's entry with
\* its last alert.
RemoveAlert(data, c, s) ==
    LET without == DictSet(data, c, DictDel(data[c], s))
    IN  IF DOMAIN without[c] = {} THEN DictDel(without, c) ELSE without

UntrackSymbol_AsTyped(arg) == arg

\* Line 847: the symbol as looked up.
UntrackSymbol(arg) == Upper(arg)

\* untrack with a save on the path of line 859 too.
untrack_SavesAnyway(c, args, saved) ==
    /\ HandlersCanRun
    /\ IF Len(args) # 1
       THEN /\ reply' = "untrack_usage"
            /\ saved = "ok"
            /\ UNCHANGED <<tracked_stocks, file, notified, log, outer>>
       ELSE LET id == IntToStr(c)
                sym == UntrackSymbol(args[1])
            IN  IF HasAlert(tracked_stocks, id, sym)
                THEN /\ tracked_stocks' = RemoveAlert(tracked_stocks, id, sym)
                     /\ file' = save_tracked_stocks(tracked_stocks', file, saved)
                     /\ reply' = "untrack_ok"
                     /\ notified' = notified \ {<<id, sym>>}
                     /\ log' = LogCommand("untrack", id, sym, NoAlert)
                     \* The sweep's outer snapshot holds the chat's dict itself.
                     \* Once the emptied dict is deleted from tracked_stocks,
                     \* later tracks fill a new dict, and the sweep finds
                     \* nothing to visit for this chat.
                     /\ outer' = outer \cap DOMAIN tracked_stocks'
                ELSE /\ reply' = "not_tracking"
                     /\ file' = save_tracked_stocks(tracked_stocks, file, saved)
                     /\ UNCHANGED <<tracked_stocks, notified, log, outer>>
    /\ UNCHANGED <<ALPHA_VANTAGE_API_KEY, pc, inner, chat_id_str, chat_id, symbol,
                   target_price, direction, current_price, alert_triggered,
                   alerts_to_remove, rm_i>>

\* /untrack of chat c with context.args = args.
untrack(c, args, saved) ==
    /\ HandlersCanRun
    /\ IF Len(args) # 1
       THEN /\ reply' = "untrack_usage"
            /\ saved = "ok"
            /\ UNCHANGED <<tracked_stocks, file, notified, log, outer>>
       ELSE LET id == IntToStr(c)
                sym == UntrackSymbol(args[1])
            IN  IF HasAlert(tracked_stocks, id, sym)
                THEN /\ tracked_stocks' = RemoveAlert(tracked_stocks, id, sym)
                     /\ file' = save_tracked_stocks(tracked_stocks', file, saved)
                     /\ reply' = "untrack_ok"
                     /\ notified' = notified \ {<<id, sym>>}
                     /\ log' = LogCommand("untrack", id, sym, NoAlert)
                     \* The sweep's outer snapshot holds the chat's dict itself.
                     \* Once the emptied dict is deleted from tracked_stocks,
                     \* later tracks fill a new dict, and the sweep finds
                     \* nothing to visit for this chat.
                     /\ outer' = outer \cap DOMAIN tracked_stocks'
                ELSE /\ reply' = "not_tracking"
                     /\ saved = "ok"
                     /\ UNCHANGED <<tracked_stocks, file, notified, log, outer>>
    /\ UNCHANGED <<ALPHA_VANTAGE_API_KEY, pc, inner, chat_id_str, chat_id, symbol,
                   target_price, direction, current_price, alert_triggered,
                   alerts_to_remove, rm_i>>

my_alerts_Saves(c) ==
    /\ HandlersCanRun
    /\ reply' = IF IntToStr(c) \notin DOMAIN tracked_stocks
                   \/ DOMAIN tracked_stocks[IntToStr(c)] = {}
                THEN "no_alerts" ELSE "alerts_list"
    /\ file' = save_tracked_stocks(tracked_stocks, file, "ok")
    /\ UNCHANGED <<tracked_stocks, ALPHA_VANTAGE_API_KEY, sweepLocals, log, notified>>

\* /myalerts of chat c.
my_alerts(c) ==
    /\ HandlersCanRun
    /\ reply' = IF IntToStr(c) \notin DOMAIN tracked_stocks
                   \/ DOMAIN tracked_stocks[IntToStr(c)] = {}
                THEN "no_alerts" ELSE "alerts_list"
    /\ UNCHANGED <<tracked_stocks, file, ALPHA_VANTAGE_API_KEY, sweepLocals, log, notified>>

(***************************************************************************)
(* check_price_alerts, the job that main() schedules every 60 seconds.     *)
(* The job queue's scheduler runs one instance of a job at a time, so a    *)
(* run starts only when the previous one has returned.                     *)
(***************************************************************************)
\* Lines 703-738: the price the lookup of one alert brings.  "skip" is a
\* continue without a price, "error" an exception that line 768 catches.
FetchPrice(key, resp) ==
    CASE ~key -> [outcome |-> "skip", value |-> None]
      [] resp.status = "error" -> [outcome |-> "skip", value |-> None]
      [] resp.price # <<>> ->
           IF ParseFloat(resp.price).ok
           THEN [outcome |-> "price", value |-> ParseFloat(resp.price).value]
           ELSE [outcome |-> "error", value |-> None]
      [] resp.information -> [outcome |-> "skip", value |-> None]
      [] OTHER -> [outcome |-> "skip", value |-> None]

\* Lines 743-756 with strict comparisons.
AlertTriggered_Strict(dir, price, target) ==
    \/ dir = Above /\ FloatGe(price, target) /\ price # target
    \/ dir = Below /\ FloatLe(price, target) /\ price # target

AlertTriggered_Never(dir, price, target) == FALSE

\* Lines 743-756
AlertTriggered(dir, price, target) ==
    \/ dir = Above /\ FloatGe(price, target)
    \/ dir = Below /\ FloatLe(price, target)

\* Lines 688-695: a run starts with the snapshot of the chats.
check_price_alerts ==
    /\ pc = "idle"
    /\ pc' = "outer"
    /\ outer' = DOMAIN tracked_stocks
    /\ alerts_to_remove' = <<>>
    /\ log' = EmptyBag
    /\ reply' = "none"
    /\ UNCHANGED <<replaced, removed>>
    /\ UNCHANGED <<tracked_stocks, file, ALPHA_VANTAGE_API_KEY, inner, chat_id_str,
                   chat_id, symbol, target_price, direction, current_price,
                   alert_triggered, rm_i, notified>>

\* Lines 695-697: the next chat of the outer snapshot, and the snapshot of
\* its alerts.  int() of a key that is no number ends the run with ValueError.
SweepChat ==
    /\ pc = "outer"
    /\ \E c \in outer :
         /\ chat_id_str' = c
         /\ outer' = outer \ {c}
         /\ IF StrToInt(c).ok
            THEN /\ chat_id' = StrToInt(c).value
                 /\ inner' = tracked_stocks[c]
                 /\ pc' = "inner"
            ELSE /\ pc' = "raised"
                 /\ UNCHANGED <<chat_id, inner>>
    /\ reply' = "none"
    /\ UNCHANGED <<replaced, removed>>
    /\ UNCHANGED <<tracked_stocks, file, ALPHA_VANTAGE_API_KEY, symbol, target_price,
                   direction, current_price, alert_triggered, alerts_to_remove, rm_i, log,
                   notified>>

\* Lines 697-707: the next alert of the inner snapshot and its values.  With
\* an API key the run calls requests.get and stays in it until the response
\* or the timeout; without one (lines 734-738) the alert is skipped.
SweepLookup ==
    /\ pc = "inner"
    /\ \E s \in DOMAIN inner :
         /\ symbol' = s
         /\ target_price' = inner[s].target_price
         /\ direction' = inner[s].direction
         /\ inner' = DictDel(inner, s)
    /\ pc' = IF ALPHA_VANTAGE_API_KEY THEN "fetching" ELSE "evaluated"
    /\ current_price' = None
    /\ alert_triggered' = FALSE
    /\ reply' = "none"
    /\ UNCHANGED <<replaced, removed>>
    /\ UNCHANGED <<tracked_stocks, file, ALPHA_VANTAGE_API_KEY, outer, chat_id_str,
                   chat_id, alerts_to_remove, rm_i, log, notified>>

\* Lines 707-756: requests.get returns or raises, and the alert's condition
\* is evaluated on the price it brought.
SweepAlert(resp) ==
    /\ pc = "fetching"
    /\ LET got == FetchPrice(ALPHA_VANTAGE_API_KEY, resp)
       IN  /\ current_price' = got.value
           /\ alert_triggered' =
                  /\ got.outcome = "price"
                  /\ AlertTriggered(direction, got.value, target_price)
    /\ pc' = "evaluated"
    /\ reply' = "none"
    /\ UNCHANGED <<replaced, removed>>
    /\ UNCHANGED <<tracked_stocks, file, ALPHA_VANTAGE_API_KEY, outer, inner, chat_id_str,
                   chat_id, symbol, target_price, direction, alerts_to_remove, rm_i, log,
                   notified>>

\* Lines 758-761: the run is suspended in send_message when the alert fired,
\* and goes on with the next alert otherwise.  The price and the alert's
\* values are used for the message text only.
SweepNotify ==
    /\ pc = "evaluated"
    /\ pc' = IF alert_triggered THEN "sending" ELSE "inner"
    /\ target_price' = None
    /\ direction' = NoText
    /\ current_price' = None
    /\ alert_triggered' = FALSE
    /\ reply' = "none"
    /\ UNCHANGED <<replaced, removed>>
    /\ UNCHANGED <<tracked_stocks, file, ALPHA_VANTAGE_API_KEY, outer, inner,
                   chat_id_str, chat_id, symbol, alerts_to_remove, rm_i, log, notified>>

\* Lines 759-771: send_message returns, and the alert is marked for removal,
\* or raises, and line 768 catches it.
send_message(ok) ==
    /\ pc = "sending"
    /\ pc' = "inner"
    /\ alerts_to_remove' = IF ok THEN Append(alerts_to_remove, <<chat_id_str, symbol>>)
                           ELSE alerts_to_remove
    /\ log' = log (+) SetToBag({Event(IF ok THEN "send_ok" ELSE "send_error", chat_id_str,
                                      symbol, NoAlert, chat_id)})
    /\ notified' = notified \cup ({<<chat_id_str, symbol>>} \cap Pairs(tracked_stocks))
    /\ reply' = "none"
    /\ UNCHANGED <<replaced, removed>>
    /\ UNCHANGED <<tracked_stocks, file, ALPHA_VANTAGE_API_KEY, outer, inner,
                   chat_id_str, chat_id, symbol, target_price, direction, current_price,
                   alert_triggered, rm_i>>

\* Line 697: the inner loop has no alert left.
SweepChatDone ==
    /\ pc = "inner"
    /\ DOMAIN inner = {}
    /\ pc' = "outer"
    /\ reply' = "none"
    /\ UNCHANGED <<replaced, removed>>
    /\ UNCHANGED <<tracked_stocks, file, ALPHA_VANTAGE_API_KEY, outer, inner,
                   chat_id_str, chat_id, symbol, target_price, direction, current_price,
                   alert_triggered, alerts_to_remove, rm_i, log, notified>>

\* Line 695: the outer loop has no chat left; the removal loop starts.
SweepLoopDone ==
    /\ pc = "outer"
    /\ outer = {}
    /\ pc' = "removing"
    /\ rm_i' = 1
    /\ reply' = "none"
    /\ UNCHANGED <<replaced, removed>>
    /\ UNCHANGED <<tracked_stocks, file, ALPHA_VANTAGE_API_KEY, outer, inner,
                   chat_id_str, chat_id, symbol, target_price, direction, current_price,
                   alert_triggered, alerts_to_remove, log, notified>>

\* Lines 777-779 without the deletion of the emptied entry.
SweepRemoveAlert_KeepsChat(data, c, s) == DictSet(data, c, DictDel(data[c], s))

\* Lines 777-779 deleting the chat's entry whatever it holds.
SweepRemoveAlert_DropsChat(data, c, s) == DictDel(data, c)

\* Lines 777-779: the alert is deleted, and the chat's entry with its last alert.
SweepRemoveAlert(data, c, s) ==
    LET without == DictSet(data, c, DictDel(data[c], s))
    IN  IF DOMAIN without[c] = {} THEN DictDel(without, c) ELSE without

\* Lines 775-776 without the test.
StillTracked_Unchecked(data, c, s) == TRUE

\* Lines 775-776: whether the marked alert is still in the store.
StillTracked(data, c, s) == c \in DOMAIN data /\ s \in DOMAIN data[c]

\* Lines 774-783: one marked alert is removed and the store saved.  The del of
\* line 777 raises KeyError for a key that is not there.
SweepRemove(saved) ==
    /\ pc = "removing"
    /\ rm_i <= Len(alerts_to_remove)
    /\ LET c == alerts_to_remove[rm_i][1]
           s == alerts_to_remove[rm_i][2]
       IN  IF StillTracked(tracked_stocks, c, s)
           THEN IF HasAlert(tracked_stocks, c, s)
                THEN /\ tracked_stocks' = SweepRemoveAlert(tracked_stocks, c, s)
                     /\ file' = save_tracked_stocks(tracked_stocks', file, saved)
                     /\ log' = log (+) SetToBag({Event("save", c, s, NoAlert, 0)})
                     /\ pc' = pc
                ELSE /\ saved = "ok"
                     /\ pc' = "raised"
                     /\ UNCHANGED <<tracked_stocks, file, log>>
           ELSE /\ saved = "ok"
                /\ log' = log (+) SetToBag({Event("absent", c, s, NoAlert, 0)})
                /\ pc' = pc
                /\ UNCHANGED <<tracked_stocks, file>>
    /\ rm_i' = rm_i + 1
    /\ notified' = notified \cap Pairs(tracked_stocks')
    /\ reply' = "none"
    /\ UNCHANGED <<replaced, removed>>
    /\ UNCHANGED <<ALPHA_VANTAGE_API_KEY, outer, inner, chat_id_str, chat_id,
                   symbol, target_price, direction, current_price, alert_triggered,
                   alerts_to_remove>>

\* Line 774: the removal loop is over and the run is about to return.
SweepRemoveDone ==
    /\ pc = "removing"
    /\ rm_i > Len(alerts_to_remove)
    /\ pc' = "done"
    /\ reply' = "none"
    /\ UNCHANGED <<replaced, removed>>
    /\ UNCHANGED <<tracked_stocks, file, ALPHA_VANTAGE_API_KEY, outer, inner,
                   chat_id_str, chat_id, symbol, target_price, direction, current_price,
                   alert_triggered, alerts_to_remove, rm_i, log, notified>>

\* The run returns (or has raised): its locals are gone.
SweepReturn ==
    /\ pc \in {"done", "raised"}
    /\ pc' = "idle"
    /\ outer' = {}
    /\ inner' = EmptyStore
    /\ chat_id_str' = NoText
    /\ chat_id' = 0
    /\ symbol' = NoText
    /\ target_price' = None
    /\ direction' = NoText
    /\ current_price' = None
    /\ alert_triggered' = FALSE
    /\ alerts_to_remove' = <<>>
    /\ rm_i' = 1
    /\ log' = EmptyBag
    /\ reply' = "none"
    /\ UNCHANGED <<replaced, removed>>
    /\ UNCHANGED <<tracked_stocks, file, ALPHA_VANTAGE_API_KEY, notified>>

(***************************************************************************)
(* Specifications                                                          *)
(***************************************************************************)
Sweep(saves, sends) ==
    \/ check_price_alerts
    \/ SweepChat
    \/ SweepLookup
    \/ \E resp \in QuoteResponses : SweepAlert(resp)
    \/ SweepNotify
    \/ \E ok \in sends : send_message(ok)
    \/ SweepChatDone
    \/ SweepLoopDone
    \/ \E saved \in saves : SweepRemove(saved)
    \/ SweepRemoveDone
    \/ SweepReturn

Commands(saves) ==
    \/ \E c \in ChatIds, args \in TrackArgs, saved \in saves :
          track(c, args, saved) /\ UNCHANGED <<replaced, removed>>
    \/ \E c \in ChatIds, args \in UntrackArgs, saved \in saves :
          untrack(c, args, saved) /\ UNCHANGED <<replaced, removed>>

\* The engine with every failure of the file and of the notifier.
NextFaults == Sweep(SaveOutcomes, BOOLEAN) \/ Commands(SaveOutcomes)

SpecFaults == Init /\ [][NextFaults]_vars

\* The engine when every save and every send_message succeeds.
Next == Sweep({"ok"}, {TRUE}) \/ Commands({"ok"})

Spec == Init /\ [][Next]_vars

\* The engine when no command arrives during a sweep: the handlers run
\* between two runs of the job only.
QuietCommands == pc = "idle" /\ Commands({"ok"})

NextQuiet == Sweep({"ok"}, BOOLEAN) \/ QuietCommands

SpecQuiet == Init /\ [][NextQuiet]_vars

\* The engine when send_message may raise.
NextNotifyFaults == Sweep({"ok"}, BOOLEAN) \/ Commands({"ok"})

SpecNotifyFaults == Init /\ [][NextNotifyFaults]_vars

\* The handlers alone, on every kind of argument, each step recording the
\* alerts it replaced.  No handler reads the API key.
InitCommands == Init /\ ALPHA_VANTAGE_API_KEY

\* What a handler's step did to the alerts that were there.
Recorded ==
    /\ replaced' = Replaced(tracked_stocks, tracked_stocks')
    /\ removed' = Pairs(tracked_stocks) \ Pairs(tracked_stocks')

NextCommands ==
    \/ \E c \in ChatIds, args \in AnyTrackArgs : track(c, args, "ok") /\ Recorded
    \/ \E c \in ChatIds, args \in AnyUntrackArgs : untrack(c, args, "ok") /\ Recorded
    \/ \E c \in ChatIds : my_alerts(c) /\ Recorded

SpecCommands == InitCommands /\ [][NextCommands]_vars

\* The engine when every save may fail and every send_message succeeds, with
\* the API key configured and the commands of one chat.
SaveFaultChats == {42}

SaveFaultCommands ==
    \/ \E c \in SaveFaultChats, args \in TrackArgs, saved \in SaveOutcomes :
          track(c, args, saved) /\ UNCHANGED <<replaced, removed>>
    \/ \E c \in SaveFaultChats, args \in UntrackArgs, saved \in SaveOutcomes :
          untrack(c, args, saved) /\ UNCHANGED <<replaced, removed>>

NextSaveFaults == Sweep(SaveOutcomes, {TRUE}) \/ SaveFaultCommands

SpecSaveFaults == InitCommands /\ [][NextSaveFaults]_vars

\* The process from its start on any of the files, with the API key
\* configured: the load, then the engine.
InitStartup ==
    /\ file \in StartFiles
    /\ tracked_stocks = EmptyStore
    /\ ALPHA_VANTAGE_API_KEY = TRUE
    /\ reply = "none"
    /\ pc = "start"
    /\ outer = {}
    /\ inner = EmptyStore
    /\ chat_id_str = NoText
    /\ chat_id = 0
    /\ symbol = NoText
    /\ target_price = None
    /\ direction = NoText
    /\ current_price = None
    /\ alert_triggered = FALSE
    /\ alerts_to_remove = <<>>
    /\ rm_i = 1
    /\ log = EmptyBag
    /\ notified = {}
    /\ replaced = {}
    /\ removed = {}

NextStartup == Startup \/ Next

SpecStartup == InitStartup /\ [][NextStartup]_vars

\* The repeating job with one chat that only tracks, so that an alert leaves
\* the store through a sweep only.  The job queue starts a sweep every 60
\* seconds and the event loop resumes a sweep that can go on: the sweep's
\* steps are weakly fair.  For each symbol, a lookup that brings a price
\* meeting the alert's condition and a send_message that succeeds are
\* strongly fair: they happen in the end if they are possible again and again.
LiveChats == {42}

LiveSymbols == {AAPL, GOOG}

LiveCommands ==
    \E c \in LiveChats, args \in TrackArgs :
        track(c, args, "ok") /\ UNCHANGED <<replaced, removed>>

LiveSweep == Sweep({"ok"}, BOOLEAN)

NextLive == LiveSweep \/ LiveCommands

QuoteMeetsCondition(s) ==
    \E resp \in QuoteResponses : SweepAlert(resp) /\ symbol = s /\ alert_triggered'

NotifierSucceeds(s) == send_message(TRUE) /\ symbol = s

FairSweeps ==
    /\ WF_vars(LiveSweep)
    /\ \A s \in LiveSymbols : SF_vars(QuoteMeetsCondition(s))
    /\ \A s \in LiveSymbols : SF_vars(NotifierSucceeds(s))

SpecLive == InitCommands /\ [][NextLive]_vars /\ FairSweeps

\* The handlers alone, with the price texts 'nan', 'inf' and 'Infinity' too.
NextAnyPrice ==
    \/ NextCommands
    \/ \E c \in ChatIds, args \in NonFiniteTrackArgs : track(c, args, "ok") /\ Recorded

SpecAnyPrice == InitCommands /\ [][NextAnyPrice]_vars

(***************************************************************************)
(* Properties                                                              *)
(***************************************************************************)
\* The key of each chat in tracked_stocks, and what the arguments of the
\* handlers stand for, written out.
KeyOf == (42 :> <<"4", "2">>) @@ (-7 :> <<"-", "7">>)

SymbolOf ==
    (<<"a", "a", "p", "l">> :> AAPL) @@ (AAPL :> AAPL) @@ (<<"G", "o", "o", "g">> :> GOOG)
    @@ (GOOG :> GOOG) @@ (<<"g", "o", "o", "g">> :> GOOG)

PriceOf == (<<"1">> :> Finite(1)) @@ (<<"2">> :> Finite(2))

DirectionOf == (Above :> Above) @@ (<<"B", "E", "L", "O", "W">> :> Below)

\* The arguments of a valid /track.
ValidTrack(args) ==
    Len(args) = 3 /\ args[2] \in DOMAIN PriceOf /\ args[3] \in DOMAIN DirectionOf

LogEvents(ev) == {e \in BagToSet(log) : e.ev = ev}

\* C1: at the end of a sweep, an alert whose notification succeeded was
\* notified exactly once in that sweep, to the chat that owns it, and is no
\* longer in the store; a chat that is left without alerts has no entry.
C1_NotifiedAlertIsRemoved ==
    pc = "done" =>
        \A e \in LogEvents("send_ok") :
            /\ CopiesIn(e, log) = 1
            /\ \A f \in LogEvents("send_ok") \cup LogEvents("send_error") :
                   f.chat_id_str = e.chat_id_str /\ f.symbol = e.symbol => f = e
            /\ e.to \in ChatIds /\ KeyOf[e.to] = e.chat_id_str
            /\ ~HasAlert(tracked_stocks, e.chat_id_str, e.symbol)
            /\ e.chat_id_str \in DOMAIN tracked_stocks
                   => DOMAIN tracked_stocks[e.chat_id_str] # {}

\* A sweep ends after it notified the only alert of a chat: the chat is gone.
C1_Witness ==
    /\ pc = "done"
    /\ \E e \in LogEvents("send_ok") :
           e.chat_id_str = <<"4", "2">> /\ <<"4", "2">> \notin DOMAIN tracked_stocks

\* C2: an evaluated alert fires exactly when a price was obtained and it is
\* at or above the target of an 'above' alert, at or below the target of a
\* 'below' alert.
C2_FiresIffConditionHolds ==
    pc = "evaluated" =>
        (alert_triggered <=>
            /\ current_price # None
            /\ current_price.kind = "finite" /\ target_price.kind = "finite"
            /\ \/ direction = Above /\ current_price.val >= target_price.val
               \/ direction = Below /\ current_price.val <= target_price.val)

\* A 'below' alert fires at a price equal to its target.
C2_Witness ==
    /\ pc = "evaluated"
    /\ alert_triggered
    /\ direction = Below
    /\ current_price = target_price

\* C3: when the lookup of a symbol fails in a sweep, that sweep has notified
\* (and marked for removal) no alert on that symbol, of any chat.
C3_FailedLookupSparesSymbol ==
    (pc = "evaluated" /\ current_price = None) =>
        /\ \A e \in LogEvents("send_ok") : e.symbol # symbol
        /\ \A i \in DOMAIN alerts_to_remove : alerts_to_remove[i][2] # symbol

\* C4: at the end of a sweep, an alert that fired and whose send_message
\* raised is gone from the store and from the file.
C4_FailedNotifyConsumesAlert ==
    pc = "done" =>
        \A e \in LogEvents("send_error") :
            /\ ~HasAlert(tracked_stocks, e.chat_id_str, e.symbol)
            /\ file.kind = "json" /\ ~HasAlert(file.doc, e.chat_id_str, e.symbol)

\* C5: no notifier call is made for a stored alert that a notifier call was
\* already made for since it was tracked.
C5_OneNotificationPerAlert ==
    [][(pc = "sending" /\ pc' = "inner") => <<chat_id_str, symbol>> \notin notified]_vars

\* C6: a sweep never raises, and at the end of a sweep in which a marked
\* alert was untracked while the sweep was suspended, the alert is in
\* neither the store nor the file, and the removal loop passed it over
\* without a save.
C6_UntrackedWhileMarked ==
    /\ pc # "raised"
    /\ pc = "done" =>
           \A e \in LogEvents("untrack") :
               /\ ~HasAlert(tracked_stocks, e.chat_id_str, e.symbol)
               /\ file.kind = "json" /\ ~HasAlert(file.doc, e.chat_id_str, e.symbol)
               /\ CopiesIn(Event("absent", e.chat_id_str, e.symbol, NoAlert, 0), log) = 1
               /\ CopiesIn(Event("save", e.chat_id_str, e.symbol, NoAlert, 0), log) = 0

\* A sweep ends that had a marked alert untracked under it.
C6_Witness == pc = "done" /\ LogEvents("untrack") # {}

\* C7: at the end of a sweep, an alert that a /track set while the sweep was
\* suspended, in place of one the sweep had marked, is in the store.
C7_TrackedWhileMarkedIsKept ==
    pc = "done" =>
        \A e \in LogEvents("track") :
            /\ HasAlert(tracked_stocks, e.chat_id_str, e.symbol)
            /\ tracked_stocks[e.chat_id_str][e.symbol] = e.alert

\* C9: after a valid /track the chat has the alert under the upper-cased
\* symbol, with the price given and the lower-cased direction, and under no
\* other spelling of the symbol.
C9_TrackStoresNormalizedAlert ==
    [][\A c \in ChatIds, args \in AnyTrackArgs :
          (ValidTrack(args) /\ track(c, args, "ok")) =>
              /\ HasAlert(tracked_stocks', KeyOf[c], SymbolOf[args[1]])
              /\ tracked_stocks'[KeyOf[c]][SymbolOf[args[1]]] =
                     [target_price |-> PriceOf[args[2]], direction |-> DirectionOf[args[3]]]
              /\ Cardinality({k \in DOMAIN tracked_stocks'[KeyOf[c]] :
                                 Upper(k) = SymbolOf[args[1]]}) = 1]_vars

\* The group chat tracked GOOG below 1: the symbol was typed "Goog" and the
\* direction "BELOW".
C9_Witness ==
    /\ reply = "track_ok"
    /\ replaced = {}
    /\ HasAlert(tracked_stocks, <<"-", "7">>, GOOG)
    /\ tracked_stocks[<<"-", "7">>][GOOG] = [target_price |-> Finite(1), direction |-> Below]

\* No chat has two alerts whose symbols differ in letter case only.
OneAlertPerPair(data) ==
    \A c \in DOMAIN data : \A k1, k2 \in DOMAIN data[c] : Upper(k1) = Upper(k2) => k1 = k2

\* C10: every store has one alert per chat and symbol, and a valid /track of
\* a pair that has an alert leaves the pair with the new values and the
\* chat's other alerts as they were.
C10_LastTrackWins ==
    [][/\ OneAlertPerPair(tracked_stocks')
       /\ \A c \in ChatIds, args \in AnyTrackArgs :
             (/\ ValidTrack(args)
              /\ HasAlert(tracked_stocks, KeyOf[c], SymbolOf[args[1]])
              /\ track(c, args, "ok")) =>
                 /\ tracked_stocks'[KeyOf[c]][SymbolOf[args[1]]] =
                        [target_price |-> PriceOf[args[2]],
                         direction |-> DirectionOf[args[3]]]
                 /\ DOMAIN tracked_stocks'[KeyOf[c]] = DOMAIN tracked_stocks[KeyOf[c]]
                 /\ \A k \in DOMAIN tracked_stocks[KeyOf[c]] \ {SymbolOf[args[1]]} :
                        tracked_stocks'[KeyOf[c]][k] = tracked_stocks[KeyOf[c]][k]]_vars

\* A /track replaced the values of an alert of a chat that has two alerts.
C10_Witness ==
    /\ reply = "track_ok"
    /\ replaced = {<<<<"4", "2">>, AAPL>>}
    /\ DOMAIN tracked_stocks[<<"4", "2">>] = {AAPL, GOOG}

\* C11: an /untrack of a pair that has no alert replies not-found and leaves
\* the store and the file as they were; it does not save.
C11_UntrackMissingChangesNothing ==
    [][\A c \in ChatIds, args \in AnyUntrackArgs :
          (/\ Len(args) = 1
           /\ ~HasAlert(tracked_stocks, KeyOf[c], SymbolOf[args[1]])
           /\ untrack(c, args, "ok")) =>
              /\ reply' = "not_tracking"
              /\ tracked_stocks' = tracked_stocks
              /\ file' = file]_vars

\* Not-found was replied while tracked_stocks.json did not exist: a save
\* would have created it.
C11_Witness == reply = "not_tracking" /\ file = NoFile

\* C12: an /untrack of a pair that has an alert replies success and removes
\* that pair and no other; every other alert is as it was, and the file holds
\* the alerts of the store.
C12_UntrackRemovesThePair ==
    [][\A c \in ChatIds, args \in AnyUntrackArgs :
          (/\ Len(args) = 1
           /\ HasAlert(tracked_stocks, KeyOf[c], SymbolOf[args[1]])
           /\ untrack(c, args, "ok")) =>
              /\ reply' = "untrack_ok"
              /\ Pairs(tracked_stocks') =
                     Pairs(tracked_stocks) \ {<<KeyOf[c], SymbolOf[args[1]]>>}
              /\ \A p \in Pairs(tracked_stocks') :
                     tracked_stocks'[p[1]][p[2]] = tracked_stocks[p[1]][p[2]]
              /\ file'.kind = "json"
              /\ Pairs(file'.doc) = Pairs(tracked_stocks')]_vars

\* AAPL was untracked for a chat that keeps its GOOG alert.
C12_Witness ==
    /\ reply = "untrack_ok"
    /\ removed = {<<<<"4", "2">>, AAPL>>}
    /\ HasAlert(tracked_stocks, <<"4", "2">>, GOOG)

\* The reply to each refused /track.
RefusalOf(args) ==
    CASE Len(args) # 3 -> "track_usage"
      [] args[2] = <<"a", "b", "c">> -> "invalid_price"
      [] args[2] \in {<<"0">>, <<"-", "1">>} -> "price_not_positive"
      [] OTHER -> "invalid_direction"

\* C13: a /track with a wrong number of arguments, a price that is no number
\* or not positive, or an unknown direction gets the error reply and leaves
\* the store and the file as they were; no empty entry is created.
C13_RefusedTrackChangesNothing ==
    [][\A c \in ChatIds, args \in RefusedTrackArgs :
          track(c, args, "ok") =>
              /\ reply' = RefusalOf(args)
              /\ tracked_stocks' = tracked_stocks
              /\ file' = file
              /\ KeyOf[c] \in DOMAIN tracked_stocks' =>
                     DOMAIN tracked_stocks'[KeyOf[c]] # {}]_vars

\* A price of 0 was refused while tracked_stocks.json did not exist.
C13_Witness == reply = "price_not_positive" /\ file = NoFile

\* C14: the target price of every stored alert is a finite number above 0.
C14_TargetsArePositiveFinite ==
    \A p \in Pairs(tracked_stocks) :
        LET target == tracked_stocks[p[1]][p[2]].target_price
        IN  target.kind = "finite" /\ target.val > 0

\* C15: in every state, between the steps of a sweep too, no chat of the
\* store has an empty mapping of symbols.
C15_NoEmptyChatEntry ==
    \A c \in DOMAIN tracked_stocks : DOMAIN tracked_stocks[c] # {}

\* While the sweep is suspended in a notification to chat 42, an /untrack has
\* left chat 42 without alerts: its entry is gone.
C15_Witness ==
    /\ pc = "sending"
    /\ chat_id_str = <<"4", "2">>
    /\ reply = "untrack_ok"
    /\ <<"4", "2">> \notin DOMAIN tracked_stocks

\* C16: when saves succeed, whenever a handler can run (no sweep is running,
\* or the sweep is suspended in send_message), loading the file gives the
\* store.
C16_FileEqualsStore ==
    HandlersCanRun =>
        /\ file.kind \in {"missing", "json"}
        /\ load_tracked_stocks(file) = tracked_stocks

\* A /track has run while the sweep is suspended: the store holds two alerts
\* and the file is written.
C16_Witness ==
    /\ pc = "sending"
    /\ reply = "track_ok"
    /\ file.kind = "json"
    /\ Cardinality(Pairs(tracked_stocks)) = 2

\* C17: a sweep saves at most once.
C17_OneSavePerSweep ==
    pc = "done" => Cardinality(LogEvents("save")) <= 1

\* C18: a sweep obtains a price for a symbol once: when a lookup brings a
\* price for an alert, the sweep has not already notified another chat's
\* alert on the same symbol, which took a lookup of its own.
C18_OneLookupPerSymbol ==
    (pc = "evaluated" /\ current_price # None) =>
        \A i \in DOMAIN alerts_to_remove : alerts_to_remove[i][2] # symbol

\* C19: a save leaves the file as it was or with the whole new content.
C19_SaveIsAllOrNothing ==
    [][\/ file' = file
       \/ file'.kind = "json" /\ file'.doc = JsonDump(tracked_stocks')]_vars

\* The outcomes of a save that fails.
FailedSaves == {"open_error", "write_error"}

\* C20: a handler or a sweep whose save fails ends as when it succeeds: the
\* /track replies success and the alert is set, the /untrack replies success
\* and the alert is gone, the sweep's removal is applied and the removal loop
\* goes on; no sweep raises.
C20_FailedSaveKeepsTheChange ==
    [][/\ pc' # "raised"
       /\ HandlersCanRun =>
            \A c \in SaveFaultChats, saved \in FailedSaves :
                /\ \A args \in TrackArgs :
                       track(c, args, saved) =>
                           /\ reply' = "track_ok"
                           /\ HasAlert(tracked_stocks', KeyOf[c], SymbolOf[args[1]])
                           /\ tracked_stocks'[KeyOf[c]][SymbolOf[args[1]]] =
                                  [target_price |-> PriceOf[args[2]],
                                   direction |-> DirectionOf[args[3]]]
                /\ \A args \in UntrackArgs :
                       (/\ HasAlert(tracked_stocks, KeyOf[c], SymbolOf[args[1]])
                        /\ untrack(c, args, saved)) =>
                           /\ reply' = "untrack_ok"
                           /\ ~HasAlert(tracked_stocks', KeyOf[c], SymbolOf[args[1]])
       /\ pc = "removing" =>
            \A saved \in FailedSaves :
                SweepRemove(saved) =>
                    /\ ~HasAlert(tracked_stocks', alerts_to_remove[rm_i][1],
                                 alerts_to_remove[rm_i][2])
                    /\ pc' = "removing"
                    /\ rm_i' = rm_i + 1]_vars

\* A sweep ends that removed the two alerts of the store while the file, which
\* no save of the sweep could open, still holds both.
C20_Witness ==
    /\ pc = "done"
    /\ Cardinality(LogEvents("save")) = 2
    /\ tracked_stocks = EmptyStore
    /\ file.kind = "json"
    /\ Cardinality(Pairs(file.doc)) = 2

\* C21: the process never ends at its start, whatever tracked_stocks.json is,
\* and the store it starts with is empty unless the file parses.
C21_LoadNeverFailsStartup ==
    /\ pc # "crashed"
    /\ (pc = "idle" /\ reply = "none" /\ file.kind # "json") => tracked_stocks = EmptyStore

\* C22: a successful save of the store followed by a load gives the store
\* back: the same chat keys, the same symbol keys, and for each alert the
\* same target_price and direction.
C22_SaveThenLoadIsIdentity ==
    load_tracked_stocks(save_tracked_stocks(tracked_stocks, file, "ok")) = tracked_stocks

\* Two chats hold alerts, one under a negative chat id and one with an
\* infinite target, and the file of the last save is their document.
C22_Witness ==
    /\ HasAlert(tracked_stocks, <<"-", "7">>, GOOG)
    /\ HasAlert(tracked_stocks, <<"4", "2">>, AAPL)
    /\ \E p \in Pairs(tracked_stocks) : tracked_stocks[p[1]][p[2]].target_price.kind = "inf"
    /\ \E p \in Pairs(tracked_stocks) : tracked_stocks[p[1]][p[2]].target_price.kind = "finite"
    /\ file = JsonFile(JsonDump(tracked_stocks))

\* C23: /myalerts is read-only.  Whatever the store holds and whoever asks,
\* with or without alerts, the step leaves the store as it was and writes
\* nothing to the file.
C23_ListChangesNothing ==
    [][\A c \in ChatIds :
          my_alerts(c) =>
              /\ tracked_stocks' = tracked_stocks
              /\ file' = file
              /\ reply' \in {"no_alerts", "alerts_list"}
              /\ (reply' = "alerts_list") <=>
                     (\E s \in {AAPL, GOOG} : HasAlert(tracked_stocks, KeyOf[c], s))]_vars

\* A chat has listed its alerts while another chat has none.
C23_Witness ==
    /\ reply = "alerts_list"
    /\ replaced = {}
    /\ removed = {}
    /\ Cardinality(DOMAIN tracked_stocks) = 1
    /\ Cardinality(Pairs(tracked_stocks)) = 2

\* C24: no failure met while one alert is processed ends the sweep early.
\* No exception leaves check_price_alerts, so every sweep that starts goes
\* on to its removal phase, whatever the store was loaded from.
C24_NoFailureEscapesTheSweep == pc # "raised"

\* C25: while a sweep waits for a quote lookup or for the notifier, the
\* commands are not held back: any chat's /myalerts and /untrack can run
\* to their reply.
C25_CommandsRunDuringSweepIO ==
    pc \in {"fetching", "sending"} =>
        \A c \in ChatIds :
            /\ ENABLED my_alerts(c)
            /\ ENABLED untrack(c, <<AAPL>>, "ok")

\* C26: every change of the store is one whole operation.  A step that
\* changes the store is a /track, an /untrack or one removal of the sweep,
\* and it ends with the file holding the changed store; while the sweep
\* applies its removals nothing else changes the store; and after a /track
\* the pair has the alert of that /track, after an /untrack it has none,
\* whatever ran before.
C26_StoreStepsAreSerialized ==
    [][/\ (tracked_stocks' # tracked_stocks) =>
              /\ file' = JsonFile(JsonDump(tracked_stocks'))
              /\ \/ reply' \in {"track_ok", "untrack_ok"} /\ pc' = pc /\ rm_i' = rm_i
                 \/ /\ reply' = "none"
                    /\ pc = "removing"
                    /\ rm_i' = rm_i + 1
                    /\ Pairs(tracked_stocks') = Pairs(tracked_stocks) \ {alerts_to_remove[rm_i]}
       /\ (pc = "removing") => reply' = "none"
       /\ (reply' = "track_ok") =>
              \A c \in ChatIds, args \in TrackArgs :
                  track(c, args, "ok") =>
                      /\ HasAlert(tracked_stocks', KeyOf[c], SymbolOf[args[1]])
                      /\ tracked_stocks'[KeyOf[c]][SymbolOf[args[1]]] =
                             [target_price |-> PriceOf[args[2]],
                              direction |-> DirectionOf[args[3]]]
       /\ (reply' = "untrack_ok") =>
              \A c \in ChatIds, args \in UntrackArgs :
                  untrack(c, args, "ok") =>
                      ~HasAlert(tracked_stocks', KeyOf[c], SymbolOf[args[1]])]_vars

\* While the sweep was suspended in send_message, a /track set again a pair
\* the sweep had marked for removal: the pair has the alert of the /track.
C26_Witness ==
    /\ pc = "sending"
    /\ reply = "track_ok"
    /\ \E e \in LogEvents("track") :
          /\ HasAlert(tracked_stocks, e.chat_id_str, e.symbol)
          /\ tracked_stocks[e.chat_id_str][e.symbol] = e.alert

\* C27: an alert that a sweep skipped is taken up again by the later sweeps.
\* With sweeps that keep running, and quote lookups and notifier calls that
\* succeed in the end, every alert that stays tracked leaves the store: it
\* is notified and removed.
C27_TrackedAlertIsEventuallyRemoved ==
    \A c \in LiveChats, s \in LiveSymbols :
        HasAlert(tracked_stocks, KeyOf[c], s) ~> ~HasAlert(tracked_stocks, KeyOf[c], s)

\* A sweep has skipped the one tracked alert on a failed lookup: the alert
\* is still in the store and in the file.
C27_Witness ==
    /\ pc = "evaluated"
    /\ current_price = None
    /\ HasAlert(tracked_stocks, chat_id_str, symbol)
    /\ file.kind = "json"
    /\ Cardinality(Pairs(tracked_stocks)) = 1

\* C28: every stored alert's direction is 'above' or 'below' in lower case,
\* after any tracks, untracks and sweeps from the empty store; a /track whose
\* direction is typed in another case is accepted, and stores the
\* lower-cased direction.
C28_DirectionIsLowerCase ==
    [][/\ \A p \in Pairs(tracked_stocks') :
              tracked_stocks'[p[1]][p[2]].direction \in
                  {<<"a", "b", "o", "v", "e">>, <<"b", "e", "l", "o", "w">>}
       /\ (reply' # "none") =>
              \A c \in ChatIds, args \in TrackArgs :
                  track(c, args, "ok") =>
                      /\ reply' = "track_ok"
                      /\ tracked_stocks'[KeyOf[c]][SymbolOf[args[1]]].direction =
                             DirectionOf[args[3]]]_vars

\* During a sweep, a /track typed with BELOW has stored a 'below' alert.
C28_Witness ==
    /\ pc = "sending"
    /\ reply = "track_ok"
    /\ \E p \in Pairs(tracked_stocks) :
          tracked_stocks[p[1]][p[2]].direction = <<"b", "e", "l", "o", "w">>

\* The spellings of one symbol.
Spellings(arg) == {k \in DOMAIN SymbolOf : SymbolOf[k] = SymbolOf[arg]}

\* C29: symbols are matched without regard to letter case.  Every stored
\* symbol key is upper case; after an /untrack the chat has no alert under
\* any spelling of the symbol typed, and the reply says an alert was removed
\* exactly when the chat had one under some spelling; after a valid /track
\* the chat has one alert over all spellings of the symbol typed.
C29_SymbolsIgnoreCase ==
    [][/\ \A p \in Pairs(tracked_stocks') : p[2] \in {AAPL, GOOG}
       /\ \A c \in ChatIds, args \in AnyUntrackArgs :
              (/\ reply' \in {"untrack_ok", "not_tracking"}
               /\ Len(args) = 1
               /\ untrack(c, args, "ok")) =>
                  /\ \A k \in Spellings(args[1]) : ~HasAlert(tracked_stocks', KeyOf[c], k)
                  /\ (reply' = "untrack_ok") <=>
                         \E k \in Spellings(args[1]) : HasAlert(tracked_stocks, KeyOf[c], k)
       /\ \A c \in ChatIds, args \in AnyTrackArgs :
              (reply' = "track_ok" /\ ValidTrack(args) /\ track(c, args, "ok")) =>
                  Cardinality({k \in Spellings(args[1]) :
                                  HasAlert(tracked_stocks', KeyOf[c], k)}) = 1]_vars

\* The group chat's GOOG alert, tracked and untracked as "Goog", is gone,
\* and the other chat keeps its AAPL alert.
C29_Witness ==
    /\ reply = "untrack_ok"
    /\ removed = {<<<<"-", "7">>, GOOG>>}
    /\ HasAlert(tracked_stocks, <<"4", "2">>, AAPL)
    /\ <<"-", "7">> \notin DOMAIN tracked_stocks

\* The entries of the chats other than c are the same in both stores.
OthersKept(old, new, c) ==
    \A k \in (DOMAIN old \cup DOMAIN new) \ {c} :
        k \in DOMAIN old /\ k \in DOMAIN new /\ new[k] = old[k]

\* C30: chats are isolated.  A /track or /untrack of a chat leaves the
\* entry of every other chat as it was, and every notification of a sweep
\* goes to the chat id whose entry held the alert.
C30_OwnersAreIsolated ==
    [][/\ \A e \in BagToSet(log') :
              e.ev \in {"send_ok", "send_error"} =>
                  e.to \in ChatIds /\ KeyOf[e.to] = e.chat_id_str
       /\ (pc' = "sending") => (chat_id' \in ChatIds /\ KeyOf[chat_id'] = chat_id_str')
       /\ (reply' = "track_ok") =>
              \A c \in ChatIds, args \in TrackArgs :
                  track(c, args, "ok") => OthersKept(tracked_stocks, tracked_stocks', KeyOf[c])
       /\ (reply' \in {"untrack_ok", "not_tracking"}) =>
              \A c \in ChatIds, args \in UntrackArgs :
                  untrack(c, args, "ok") =>
                      OthersKept(tracked_stocks, tracked_stocks', KeyOf[c])]_vars

\* Both chats hold an alert on GOOG; the sweep has notified one chat and is
\* sending the notification of the other, and a chat has just set an alert.
C30_Witness ==
    /\ pc = "sending"
    /\ reply = "track_ok"
    /\ chat_id = -7
    /\ symbol = GOOG
    /\ HasAlert(tracked_stocks, <<"4", "2">>, GOOG)
    /\ HasAlert(tracked_stocks, <<"-", "7">>, GOOG)
    /\ \E e \in LogEvents("send_ok") : e.to = 42 /\ e.symbol = GOOG

\* C31: a sweep only removes.  With no command during the sweep, each of its
\* steps leaves a store that is part of the one before, with no new chat,
\* symbol or alert and every remaining alert unchanged; an alert is notified
\* only when its condition held on a price obtained, is marked only after
\* its notification succeeded, and is removed only when it was marked.
C31_SweepOnlyRemoves ==
    [][(pc # "idle" \/ pc' # "idle") =>
          /\ DOMAIN tracked_stocks' \subseteq DOMAIN tracked_stocks
          /\ Pairs(tracked_stocks') \subseteq Pairs(tracked_stocks)
          /\ \A p \in Pairs(tracked_stocks') :
                 tracked_stocks'[p[1]][p[2]] = tracked_stocks[p[1]][p[2]]
          /\ \A p \in Pairs(tracked_stocks) \ Pairs(tracked_stocks') :
                 /\ pc = "removing"
                 /\ p = alerts_to_remove[rm_i]
          /\ \A i \in DOMAIN alerts_to_remove' :
                 \E e \in BagToSet(log') :
                     /\ e.ev = "send_ok"
                     /\ <<e.chat_id_str, e.symbol>> = alerts_to_remove'[i]
          /\ (pc' = "sending") =>
                 /\ current_price # None
                 /\ \/ direction = Above /\ FloatGe(current_price, target_price)
                    \/ direction = Below /\ FloatLe(current_price, target_price)]_vars

\* A sweep has removed the alert it notified and ends with the chat's other
\* alert, which did not fire, still in the store.
C31_Witness ==
    /\ pc = "done"
    /\ \E e \in LogEvents("save") :
          /\ ~HasAlert(tracked_stocks, e.chat_id_str, e.symbol)
          /\ e.chat_id_str \in DOMAIN tracked_stocks
    /\ Cardinality(LogEvents("send_ok")) = 1

\* C32: no notification is sent for an alert that has been untracked and
\* not tracked again.  Whenever a sweep starts sending a notification, also
\* one that was suspended in send_message when the /untrack ran, the pair
\* it notifies has an alert in the store.
C32_NoNotificationAfterUntrack ==
    [][(pc = "evaluated" /\ pc' = "sending") =>
          HasAlert(tracked_stocks, chat_id_str, symbol)]_vars

====
